---- MODULE Spec2Model ----
(***************************************************************************)
(* TypedSettingProps of fitbit-settings-commons (version 2): a wrapper     *)
(* of the `props` a Fitbit settings page receives.  It unpacks the string  *)
(* entries of props.settings into typed values, packs values back into     *)
(* strings for props.settingsStorage, and tracks the keys read through     *)
(* getToUpdate() so that commit() persists them.                           *)
(*                                                                         *)
(* Strings are sequences of one-character strings, so that JSON.stringify  *)
(* and JSON.parse are computed character by character.  A JavaScript value *)
(* is a tagged record; `undefined` is the record Undefined.                *)
(***************************************************************************)
EXTENDS Integers, Sequences, FiniteSets, TLC

----------------------------------------------------------------------------
(* JavaScript values *)

Undefined == [t |-> "undefined"]

ASIS == [t |-> "ASIS"]

VNull == [t |-> "null"]

VStr(s) == [t |-> "string", s |-> s]

VNum(n) == [t |-> "number", n |-> n]

VBool(b) == [t |-> "boolean", b |-> b]

VArr(a) == [t |-> "array", a |-> a]

\* an object: its own enumerable properties, in insertion order, as <<name, value>>
VObj(o) == [t |-> "object", o |-> o]

\* an own property slot of typedSettings that does not exist
NoProp == [t |-> "noprop"]

IsString(v) == v.t = "string"

QUOTE == "\""

BACKSLASH == "\\"

DigitChars == <<"0", "1", "2", "3", "4", "5", "6", "7", "8", "9">>

----------------------------------------------------------------------------
(* JSON.stringify, on the values above *)

RECURSIVE Digits(_)
Digits(n) ==
  IF n < 10 THEN <<DigitChars[n + 1]>>
  ELSE Digits(n \div 10) \o <<DigitChars[(n % 10) + 1]>>

RECURSIVE Escape(_)
Escape(s) ==
  IF s = <<>> THEN <<>>
  ELSE (IF Head(s) \in {QUOTE, BACKSLASH} THEN <<BACKSLASH, Head(s)>> ELSE <<Head(s)>>)
       \o Escape(Tail(s))

QuoteString(s) == <<QUOTE>> \o Escape(s) \o <<QUOTE>>

RECURSIVE Stringify(_)
RECURSIVE StringifyElements(_)
RECURSIVE StringifyMembers(_, _)

\* the elements of an array, comma separated; undefined is written as null
StringifyElements(a) ==
  IF a = <<>> THEN <<>>
  ELSE (IF Head(a) = Undefined THEN <<"n", "u", "l", "l">> ELSE Stringify(Head(a)))
       \o (IF Tail(a) = <<>> THEN <<>> ELSE <<",">> \o StringifyElements(Tail(a)))

\* the properties of an object; a property whose value is undefined is left out
StringifyMembers(o, first) ==
  IF o = <<>> THEN <<>>
  ELSE IF Head(o)[2] = Undefined THEN StringifyMembers(Tail(o), first)
  ELSE (IF first THEN <<>> ELSE <<",">>)
       \o QuoteString(Head(o)[1]) \o <<":">> \o Stringify(Head(o)[2])
       \o StringifyMembers(Tail(o), FALSE)

\* the characters of JSON.stringify(v)
Stringify(v) ==
  CASE v.t = "string"  -> QuoteString(v.s)
    [] v.t = "number"  -> Digits(v.n)
    [] v.t = "boolean" -> IF v.b THEN <<"t", "r", "u", "e">> ELSE <<"f", "a", "l", "s", "e">>
    [] v.t = "null"    -> <<"n", "u", "l", "l">>
    [] v.t = "array"   -> <<"[">> \o StringifyElements(v.a) \o <<"]">>
    [] v.t = "object"  -> <<"{">> \o StringifyMembers(v.o, TRUE) \o <<"}">>
    [] OTHER           -> Undefined

\* JSON.stringify(value): a string, or undefined when value is undefined
JsonStringify(value) ==
  IF value = Undefined THEN Undefined ELSE VStr(Stringify(value))

----------------------------------------------------------------------------
(* JSON.parse, on strings without white space.  A parser returns           *)
(* [ok, v, i]: whether it accepted, the value, and the next position.      *)

Fail == [ok |-> FALSE, v |-> Undefined, i |-> 0]

Accept(v, i) == [ok |-> TRUE, v |-> v, i |-> i]

At(s, i) == IF i >= 1 /\ i <= Len(s) THEN s[i] ELSE "<end>"

IsDigit(c) == \E d \in 1..10 : DigitChars[d] = c

DigitValue(c) == (CHOOSE d \in 1..10 : DigitChars[d] = c) - 1

\* the string literal whose opening quote is before position i.  Of the
\* escapes only \" and \\ are read: no string of the model holds another.
RECURSIVE ParseStringBody(_, _, _)
ParseStringBody(s, i, acc) ==
  IF i > Len(s) THEN Fail
  ELSE IF s[i] = QUOTE THEN Accept(VStr(acc), i + 1)
  ELSE IF s[i] = BACKSLASH
       THEN IF At(s, i + 1) \in {QUOTE, BACKSLASH}
            THEN ParseStringBody(s, i + 2, Append(acc, s[i + 1]))
            ELSE Fail
  ELSE ParseStringBody(s, i + 1, Append(acc, s[i]))

\* the digits of an integer from position i on
RECURSIVE ParseDigits(_, _, _)
ParseDigits(s, i, n) ==
  IF IsDigit(At(s, i)) THEN ParseDigits(s, i + 1, 10 * n + DigitValue(s[i]))
  ELSE Accept(VNum(n), i)

\* a number: 0, or a digit 1-9 followed by digits (a leading zero is an error)
ParseNumber(s, i) ==
  IF s[i] = "0" THEN (IF IsDigit(At(s, i + 1)) THEN Fail ELSE Accept(VNum(0), i + 1))
  ELSE ParseDigits(s, i, 0)

IsLiteral(s, i, word) ==
  /\ i + Len(word) - 1 <= Len(s)
  /\ SubSeq(s, i, i + Len(word) - 1) = word

\* o with property name set to v: in place when o has it, appended otherwise
RECURSIVE SetMember(_, _, _)
SetMember(o, name, v) ==
  IF o = <<>> THEN << <<name, v>> >>
  ELSE IF Head(o)[1] = name THEN << <<name, v>> >> \o Tail(o)
  ELSE <<Head(o)>> \o SetMember(Tail(o), name, v)

RECURSIVE ParseValue(_, _)
RECURSIVE ParseElements(_, _, _)
RECURSIVE ParseMembers(_, _, _)

\* after "[" or ",": a value, then "," and more, or "]"
ParseElements(s, i, acc) ==
  LET r == ParseValue(s, i) IN
  IF ~r.ok THEN Fail
  ELSE IF At(s, r.i) = "," THEN ParseElements(s, r.i + 1, Append(acc, r.v))
  ELSE IF At(s, r.i) = "]" THEN Accept(VArr(Append(acc, r.v)), r.i + 1)
  ELSE Fail

\* after "{" or ",": "name":value, then "," and more, or "}"
ParseMembers(s, i, acc) ==
  IF At(s, i) # QUOTE THEN Fail
  ELSE LET k == ParseStringBody(s, i + 1, <<>>) IN
       IF ~k.ok \/ At(s, k.i) # ":" THEN Fail
       ELSE LET r == ParseValue(s, k.i + 1) IN
            IF ~r.ok THEN Fail
            ELSE IF At(s, r.i) = "," THEN ParseMembers(s, r.i + 1, SetMember(acc, k.v.s, r.v))
            ELSE IF At(s, r.i) = "}" THEN Accept(VObj(SetMember(acc, k.v.s, r.v)), r.i + 1)
            ELSE Fail

ParseValue(s, i) ==
  LET c == At(s, i) IN
  CASE c = QUOTE -> ParseStringBody(s, i + 1, <<>>)
    [] IsDigit(c) -> ParseNumber(s, i)
    [] c = "[" -> IF At(s, i + 1) = "]" THEN Accept(VArr(<<>>), i + 2)
                  ELSE ParseElements(s, i + 1, <<>>)
    [] c = "{" -> IF At(s, i + 1) = "}" THEN Accept(VObj(<<>>), i + 2)
                  ELSE ParseMembers(s, i + 1, <<>>)
    [] c = "t" -> IF IsLiteral(s, i, <<"t", "r", "u", "e">>) THEN Accept(VBool(TRUE), i + 4) ELSE Fail
    [] c = "f" -> IF IsLiteral(s, i, <<"f", "a", "l", "s", "e">>) THEN Accept(VBool(FALSE), i + 5) ELSE Fail
    [] c = "n" -> IF IsLiteral(s, i, <<"n", "u", "l", "l">>) THEN Accept(VNull, i + 4) ELSE Fail
    [] OTHER -> Fail

\* JSON.parse(s): [ok |-> FALSE] stands for the SyntaxError it throws
JsonParse(s) ==
  LET r == ParseValue(s, 1) IN
  IF r.ok /\ r.i = Len(s) + 1 THEN r ELSE Fail

----------------------------------------------------------------------------
(* Packers and unpackers.  A function the caller may configure is named by *)
(* a string; NoFn is an option left out.                                   *)

NoFn == "undefined"

Keys == {"a", "b"}

\* the order in which Object.entries lists the keys of an object
KeyOrder == <<"a", "b">>

Returned(v) == [threw |-> FALSE, v |-> v]

Thrown == [threw |-> TRUE, v |-> Undefined]

IsFalsy(setting) == setting = Undefined \/ setting = VStr(<<>>)

\* jsonParseUnpackInitiator: JSON.parse, the string itself when that throws
jsonParseUnpackInitiator(setting) ==
  IF IsFalsy(setting) THEN Undefined
  ELSE LET r == JsonParse(setting.s) IN IF r.ok THEN r.v ELSE setting

\* stringifyNonString: a string as it is, JSON.stringify of anything else
stringifyNonString(value) ==
  IF IsString(value) THEN value ELSE JsonStringify(value)

\* an unpackInitiator named fn applied to a setting (a string or undefined)
ApplyUnpacker(fn, setting) ==
  CASE fn = "jsonParseUnpackInitiator" -> Returned(jsonParseUnpackInitiator(setting))
    [] fn = "identity" -> Returned(setting)
    [] fn \in {"parseOr42", "parseOrEmpty"} ->
         IF IsFalsy(setting)
         THEN Returned(IF fn = "parseOr42" THEN VNum(42) ELSE VArr(<<>>))
         ELSE LET r == JsonParse(setting.s) IN IF r.ok THEN Returned(r.v) ELSE Thrown

\* a packer named fn applied to a value; packString is a packer of the caller's
\* that throws when it is given anything but a string
ApplyPacker(fn, value) ==
  CASE fn = "JSON.stringify" -> Returned(JsonStringify(value))
    [] fn = "stringifyNonString" -> Returned(stringifyNonString(value))
    [] fn = "identity" -> Returned(value)
    [] fn = "packString" -> IF IsString(value) THEN Returned(value) ELSE Thrown

----------------------------------------------------------------------------
(* Bounds and inputs *)

\* the most properties one update() call is given
MaxPartial == 2

\* the longest an array grows by in-place push
MaxArrayLen == 2

\* the strings props.settings may hold under a key when a wrapper is first made
InitialRaws ==
  { VStr(<<>>), VStr(<<"4", "2">>), VStr(<<"a">>), VStr(<<"[", "1", "]">>) }

\* the values update() is called with
UpdateValues ==
  { VStr(<<"4", "2">>), VArr(<<VNum(1)>>), Undefined, ASIS }

\* the element pushed in place on an array
PushedElement == VNum(4)

NoOption == [packer |-> NoFn, unpackInitiator |-> NoFn]

\* the options the wrapper is made with: packerUnpackers.a, packerUnpackers.b
\* and defaultPackerUnpacker
Option(packer, unpackInitiator) == [packer |-> packer, unpackInitiator |-> unpackInitiator]

OptionsOfA ==
  { NoOption,
    Option("identity", "identity"),
    Option("stringifyNonString", NoFn),
    Option("JSON.stringify", "jsonParseUnpackInitiator"),
    Option(NoFn, "parseOr42") }

DefaultOptions ==
  { [packer |-> NoFn, unpacker |-> NoFn],
    [packer |-> "stringifyNonString", unpacker |-> "identity"] }

Configurations ==
  { [a |-> a, b |-> NoOption, d |-> d] : a \in OptionsOfA, d \in DefaultOptions }
  \cup { [a |-> NoOption, b |-> Option(NoFn, "parseOr42"), d |-> [packer |-> NoFn, unpacker |-> NoFn]],
         [a |-> Option("identity", "identity"), b |-> Option(NoFn, "parseOr42"),
          d |-> [packer |-> "stringifyNonString", unpacker |-> "identity"]],
         [a |-> NoOption, b |-> NoOption, d |-> [packer |-> "stringifyNonString", unpacker |-> NoFn]],
         [a |-> Option("stringifyNonString", NoFn), b |-> NoOption,
          d |-> [packer |-> NoFn, unpacker |-> "parseOr42"]] }

----------------------------------------------------------------------------
(* The wrapper *)

VARIABLES
  storage,                 \* props.settingsStorage: key -> string, NoProp for no item
  packerUnpackers,         \* this.packerUnpackers: key -> [packer, unpackInitiator]
  defaultPackerUnpacker,   \* the constructor's third argument: [packer, unpacker]
  defaultPacker,           \* this.defaultPacker
  defaultUnpackInitiator,  \* this.defaultUnpackInitiator
  typedSettings,           \* this.typedSettings: key -> value, NoProp for no property
  trackedSettings,         \* this.trackedSettings: the keys that have a getter
  accessedRegistry,        \* this.accessedRegistry: the keys, in insertion order
  constructed,             \* whether the constructor returned a wrapper
  threw,                   \* whether the last call threw
  events,                  \* what the last call did: packer, unpacker and storage calls
  last,                    \* the last call and its arguments
  option                   \* this.option of the wrapper of version 1.0.3, NoFn for any other

vars ==
  << storage, packerUnpackers, defaultPackerUnpacker, defaultPacker,
     defaultUnpackInitiator, typedSettings,
     trackedSettings, accessedRegistry, constructed, threw, events, last, option >>

\* reading property k of the settings object o: undefined when o has no such property
Get(o, k) == IF o[k] = NoProp THEN Undefined ELSE o[k]

\* UnpackerOf that takes a key's entry as a whole: a key with an entry of its own
\* that has no unpackInitiator gets the built-in unpacker, not the default one
UnpackerOf_WholeEntry(pu, du, k) ==
  IF pu[k].unpackInitiator # NoFn THEN pu[k].unpackInitiator
  ELSE IF pu[k].packer # NoFn THEN "jsonParseUnpackInitiator" ELSE du

\* the unpacker of key k: this.packerUnpackers?.[k]?.unpackInitiator ?? this.defaultUnpackInitiator
UnpackerOf(pu, du, k) ==
  IF pu[k].unpackInitiator # NoFn THEN pu[k].unpackInitiator ELSE du

\* PackerOf with the precedence reversed: a configured default before the key's own
PackerOf_DefaultFirst(pu, dp, k) ==
  IF dp # "JSON.stringify" THEN dp
  ELSE IF pu[k].packer # NoFn THEN pu[k].packer ELSE dp

\* the packer of key k: this.packerUnpackers?.[k]?.packer ?? this.defaultPacker
PackerOf(pu, dp, k) ==
  IF pu[k].packer # NoFn THEN pu[k].packer ELSE dp

SetItem(k, s) == [ev |-> "setItem", key |-> k, value |-> s]

RemoveItem(k) == [ev |-> "removeItem", key |-> k]

Packed(k, fn, v) == [ev |-> "pack", key |-> k, fn |-> fn, arg |-> v]

Unpacked(k, fn, s) == [ev |-> "unpack", key |-> k, fn |-> fn, arg |-> s]

\* the wrapper's fields and the storage, as one record the methods transform
Wrapper ==
  [ typedSettings |-> typedSettings, trackedSettings |-> trackedSettings,
    accessedRegistry |-> accessedRegistry, storage |-> storage,
    events |-> <<>>, threw |-> FALSE ]

\* persist as version 1.0.1 had it: a string is stored as it is
persist_StringAsIs(w, key, val) ==
  IF val = Undefined
  THEN [w EXCEPT !.storage[key] = NoProp, !.events = Append(@, RemoveItem(key))]
  ELSE LET packer == PackerOf(packerUnpackers, defaultPacker, key)
           r == IF IsString(val) THEN Returned(val) ELSE ApplyPacker(packer, val)
       IN [w EXCEPT !.storage[key] = r.v,
                    !.events = @ \o <<Packed(key, packer, val), SetItem(key, r.v)>>]

\* persist without the test for undefined
persist_NoUndefinedTest(w, key, val) ==
  LET packer == PackerOf(packerUnpackers, defaultPacker, key)
      r == ApplyPacker(packer, val)
  IN [w EXCEPT !.storage[key] = r.v,
               !.events = @ \o <<Packed(key, packer, val), SetItem(key, r.v)>>]

\* persist that packs before it tests for undefined
persist_PacksFirst(w, key, val) ==
  LET packer == PackerOf(packerUnpackers, defaultPacker, key)
      r == ApplyPacker(packer, val)
      w1 == [w EXCEPT !.events = Append(@, Packed(key, packer, val))]
  IN IF val = Undefined
     THEN [w1 EXCEPT !.storage[key] = NoProp, !.events = Append(@, RemoveItem(key))]
     ELSE [w1 EXCEPT !.storage[key] = r.v, !.events = Append(@, SetItem(key, r.v))]

\* persist that catches what the packer throws and stores JSON.stringify(val)
persist_Catches(w, key, val) ==
  IF val = Undefined
  THEN [w EXCEPT !.storage[key] = NoProp, !.events = Append(@, RemoveItem(key))]
  ELSE LET packer == PackerOf(packerUnpackers, defaultPacker, key)
           r == ApplyPacker(packer, val)
           s == IF r.threw THEN JsonStringify(val) ELSE r.v
       IN [w EXCEPT !.storage[key] = s,
                    !.events = @ \o <<Packed(key, packer, val), SetItem(key, s)>>]

\* persist(key, val)
persist(w, key, val) ==
  IF val = Undefined
  THEN [w EXCEPT !.storage[key] = NoProp, !.events = Append(@, RemoveItem(key))]
  ELSE LET packer == PackerOf(packerUnpackers, defaultPacker, key)
           r == ApplyPacker(packer, val)
       IN IF r.threw
          THEN [w EXCEPT !.events = Append(@, Packed(key, packer, val)), !.threw = TRUE]
          ELSE [w EXCEPT !.storage[key] = r.v,
                         !.events = @ \o <<Packed(key, packer, val), SetItem(key, r.v)>>]

RECURSIVE updateFrom(_, _, _)
RECURSIVE updateFrom_NoStore(_, _, _)
RECURSIVE updateFrom_AsisAssigns(_, _, _)
RECURSIVE updateFrom_AsisStored(_, _, _)
RECURSIVE updateFrom_Registers(_, _, _)
RECURSIVE updateFrom_ClearsDirty(_, _, _)
RECURSIVE updateFrom_Replaces(_, _, _)
RECURSIVE updateFrom_SkipsEqual(_, _, _)
RECURSIVE updateFrom_AssignsAfter(_, _, _)

\* update that assigns the value after persist returned
updateFrom_AssignsAfter(w, value, i) ==
  IF i > Len(value) \/ w.threw THEN w
  ELSE LET k == value[i][1]
           v == value[i][2]
           val == IF v = ASIS THEN Get(w.typedSettings, k) ELSE v
           w1 == persist(w, k, val)
       IN updateFrom_AssignsAfter(IF v = ASIS \/ w1.threw THEN w1
                                  ELSE [w1 EXCEPT !.typedSettings[k] = v], value, i + 1)

\* update that replaces the settings by the partial settings it is given
updateFrom_Replaces(w, value, i) ==
  IF i > Len(value) \/ w.threw THEN w
  ELSE LET k == value[i][1]
           v == value[i][2]
           w0 == IF i = 1
                 THEN [w EXCEPT !.typedSettings = [j \in Keys |-> IF j = k THEN @[j] ELSE NoProp]]
                 ELSE w
           w1 == IF v = ASIS THEN w0 ELSE [w0 EXCEPT !.typedSettings[k] = v]
           val == IF v = ASIS THEN Get(w0.typedSettings, k) ELSE v
       IN updateFrom_Replaces(persist(w1, k, val), value, i + 1)

\* update that persists a value only when it is not the one the setting has
updateFrom_SkipsEqual(w, value, i) ==
  IF i > Len(value) \/ w.threw THEN w
  ELSE LET k == value[i][1]
           v == value[i][2]
           w1 == IF v = ASIS THEN w ELSE [w EXCEPT !.typedSettings[k] = v]
           val == IF v = ASIS THEN Get(w.typedSettings, k) ELSE v
       IN updateFrom_SkipsEqual(IF v # ASIS /\ v = Get(w.typedSettings, k) THEN w1
                                ELSE persist(w1, k, val), value, i + 1)

\* update that registers each key it is given as accessed
updateFrom_Registers(w, value, i) ==
  IF i > Len(value) \/ w.threw THEN w
  ELSE LET k == value[i][1]
           v == value[i][2]
           w1 == IF v = ASIS THEN w ELSE [w EXCEPT !.typedSettings[k] = v]
           val == IF v = ASIS THEN Get(w.typedSettings, k) ELSE v
           w2 == [w1 EXCEPT !.accessedRegistry =
                              IF \E j \in 1..Len(@) : @[j] = k THEN @ ELSE Append(@, k)]
       IN updateFrom_Registers(persist(w2, k, val), value, i + 1)

\* update that takes each key it persists out of the registry
updateFrom_ClearsDirty(w, value, i) ==
  IF i > Len(value) \/ w.threw THEN w
  ELSE LET k == value[i][1]
           v == value[i][2]
           w1 == IF v = ASIS THEN w ELSE [w EXCEPT !.typedSettings[k] = v]
           val == IF v = ASIS THEN Get(w.typedSettings, k) ELSE v
           w2 == [w1 EXCEPT !.accessedRegistry = SelectSeq(@, LAMBDA j : j # k)]
       IN updateFrom_ClearsDirty(persist(w2, k, val), value, i + 1)

\* update that persists the value and leaves typedSettings as it was
updateFrom_NoStore(w, value, i) ==
  IF i > Len(value) \/ w.threw THEN w
  ELSE LET k == value[i][1]
           v == value[i][2]
           val == IF v = ASIS THEN Get(w.typedSettings, k) ELSE v
       IN updateFrom_NoStore(persist(w, k, val), value, i + 1)

\* update that, for ASIS, assigns the setting to itself
updateFrom_AsisAssigns(w, value, i) ==
  IF i > Len(value) \/ w.threw THEN w
  ELSE LET k == value[i][1]
           v == value[i][2]
           val == IF v = ASIS THEN Get(w.typedSettings, k) ELSE v
           w1 == [w EXCEPT !.typedSettings[k] = val]
       IN updateFrom_AsisAssigns(persist(w1, k, val), value, i + 1)

\* update without the test for ASIS: the marker is stored like any value
updateFrom_AsisStored(w, value, i) ==
  IF i > Len(value) \/ w.threw THEN w
  ELSE LET k == value[i][1]
           v == value[i][2]
           w1 == [w EXCEPT !.typedSettings[k] = v]
       IN updateFrom_AsisStored(persist(w1, k, v), value, i + 1)

\* update(value): the entries of value from the i-th on
updateFrom(w, value, i) ==
  IF i > Len(value) \/ w.threw THEN w
  ELSE LET k == value[i][1]
           v == value[i][2]
           w1 == IF v = ASIS THEN w ELSE [w EXCEPT !.typedSettings[k] = v]
           val == IF v = ASIS THEN Get(w.typedSettings, k) ELSE v
       IN updateFrom(persist(w1, k, val), value, i + 1)

update(w, value) == updateFrom(w, value, 1)

RECURSIVE commitFrom(_, _)
RECURSIVE commitFrom_NoClear(_, _)
RECURSIVE commitFrom_OnlyChanged(_, _)
RECURSIVE commitFrom_ClearsOnThrow(_, _)

\* commit that persists a key only when its packed setting is not what the storage holds
commitFrom_OnlyChanged(w, i) ==
  IF w.threw THEN w
  ELSE IF i > Len(w.accessedRegistry) THEN [w EXCEPT !.accessedRegistry = <<>>]
  ELSE LET k == w.accessedRegistry[i]
           val == Get(w.typedSettings, k)
           same == IF val = Undefined THEN w.storage[k] = NoProp
                   ELSE w.storage[k] = ApplyPacker(PackerOf(packerUnpackers, defaultPacker, k), val).v
       IN commitFrom_OnlyChanged(IF same THEN w ELSE persist(w, k, val), i + 1)

\* commit with the registry's clear() in a finally: it runs when persist threw
commitFrom_ClearsOnThrow(w, i) ==
  IF w.threw \/ i > Len(w.accessedRegistry) THEN [w EXCEPT !.accessedRegistry = <<>>]
  ELSE LET k == w.accessedRegistry[i]
       IN commitFrom_ClearsOnThrow(persist(w, k, Get(w.typedSettings, k)), i + 1)

\* commit without the registry's clear()
commitFrom_NoClear(w, i) ==
  IF w.threw \/ i > Len(w.accessedRegistry) THEN w
  ELSE LET k == w.accessedRegistry[i]
       IN commitFrom_NoClear(persist(w, k, Get(w.typedSettings, k)), i + 1)

\* commit(): the keys of the registry from the i-th on, then clear()
commitFrom(w, i) ==
  IF w.threw THEN w
  ELSE IF i > Len(w.accessedRegistry) THEN [w EXCEPT !.accessedRegistry = <<>>]
  ELSE LET k == w.accessedRegistry[i]
       IN commitFrom(persist(w, k, Get(w.typedSettings, k)), i + 1)

commit(w) == commitFrom(w, 1)

\* get(): the settings object, as the function from its property names to their values
get(w) ==
  [k \in {j \in Keys : w.typedSettings[j] # NoProp} |-> w.typedSettings[k]]

\* getToUpdate(): the tracked object, as the function from the names that have
\* a getter to what the getter returns
getToUpdate(w) ==
  [k \in w.trackedSettings |-> Get(w.typedSettings, k)]

\* the object this.typedSettings itself, as opposed to a copy of what it holds
TypedSettingsRef == [ref |-> "typedSettings"]

\* a get() that returns a copy of the settings
getReference_Copy(w) == get(w)

\* what get() returns: this.typedSettings, the object itself
getReference(w) == TypedSettingsRef

\* what the object view, returned by get() earlier, holds when the wrapper is w
Contents(view, w) == IF view = TypedSettingsRef THEN get(w) ELSE view

\* view[key].push(element) on the object view returned by get(): it reaches
\* the wrapper's settings when view is the wrapper's own object
pushThrough(view, w, key, element) ==
  IF view = TypedSettingsRef
  THEN [w EXCEPT !.typedSettings[key] = VArr(Append(@.a, element))]
  ELSE w

\* reading property key of the object o: undefined when o has no such property
Read(o, key) == IF key \in DOMAIN o THEN o[key] ELSE Undefined

\* a getter that reads the item of the key from the storage again
trackedGet_Reloads(w, key) ==
  LET w1 == IF w.storage[key] = NoProp THEN w
            ELSE [w EXCEPT !.typedSettings[key] =
                    ApplyUnpacker(UnpackerOf(packerUnpackers, defaultUnpackInitiator, key),
                                  w.storage[key]).v]
  IN IF \E i \in 1..Len(w1.accessedRegistry) : w1.accessedRegistry[i] = key THEN w1
     ELSE [w1 EXCEPT !.accessedRegistry = Append(@, key)]

\* the getter with a list for a registry: every read adds the key
trackedGet_List(w, key) == [w EXCEPT !.accessedRegistry = Append(@, key)]

\* the getter track(key) installs: registers the key, returns the setting
trackedGet(w, key) ==
  IF \E i \in 1..Len(w.accessedRegistry) : w.accessedRegistry[i] = key THEN w
  ELSE [w EXCEPT !.accessedRegistry = Append(@, key)]

RECURSIVE unpackFrom(_, _, _, _, _)
RECURSIVE unpackFrom_Registers(_, _, _, _, _)

\* the first loop with a track(k) that also registers k as accessed
unpackFrom_Registers(w, settings, pu, du, i) ==
  IF i > Len(KeyOrder) \/ w.threw THEN w
  ELSE LET k == KeyOrder[i] IN
       IF settings[k] = NoProp THEN unpackFrom_Registers(w, settings, pu, du, i + 1)
       ELSE LET unpacker == UnpackerOf(pu, du, k)
                r == ApplyUnpacker(unpacker, settings[k])
                w1 == [w EXCEPT !.events = Append(@, Unpacked(k, unpacker, settings[k]))]
            IN IF r.threw THEN [w1 EXCEPT !.threw = TRUE]
               ELSE unpackFrom_Registers([w1 EXCEPT !.typedSettings[k] = r.v,
                                                    !.trackedSettings = @ \cup {k},
                                                    !.accessedRegistry = Append(@, k)],
                                         settings, pu, du, i + 1)

RECURSIVE unpackFrom_NoTrack(_, _, _, _, _)
RECURSIVE unpackFrom_SkipsUndefined(_, _, _, _, _)

\* the first loop with neither assignment nor track(k) when the unpacker returned undefined
unpackFrom_SkipsUndefined(w, settings, pu, du, i) ==
  IF i > Len(KeyOrder) \/ w.threw THEN w
  ELSE LET k == KeyOrder[i] IN
       IF settings[k] = NoProp THEN unpackFrom_SkipsUndefined(w, settings, pu, du, i + 1)
       ELSE LET unpacker == UnpackerOf(pu, du, k)
                r == ApplyUnpacker(unpacker, settings[k])
                w1 == [w EXCEPT !.events = Append(@, Unpacked(k, unpacker, settings[k]))]
            IN IF r.threw THEN [w1 EXCEPT !.threw = TRUE]
               ELSE unpackFrom_SkipsUndefined(
                      IF r.v = Undefined THEN w1
                      ELSE [w1 EXCEPT !.typedSettings[k] = r.v,
                                      !.trackedSettings = @ \cup {k}],
                      settings, pu, du, i + 1)

\* the first loop without track(k)
unpackFrom_NoTrack(w, settings, pu, du, i) ==
  IF i > Len(KeyOrder) \/ w.threw THEN w
  ELSE LET k == KeyOrder[i] IN
       IF settings[k] = NoProp THEN unpackFrom_NoTrack(w, settings, pu, du, i + 1)
       ELSE LET unpacker == UnpackerOf(pu, du, k)
                r == ApplyUnpacker(unpacker, settings[k])
                w1 == [w EXCEPT !.events = Append(@, Unpacked(k, unpacker, settings[k]))]
            IN IF r.threw THEN [w1 EXCEPT !.threw = TRUE]
               ELSE unpackFrom_NoTrack([w1 EXCEPT !.typedSettings[k] = r.v],
                                       settings, pu, du, i + 1)

\* the constructor's first loop, over the entries of props.settings from the i-th key on
unpackFrom(w, settings, pu, du, i) ==
  IF i > Len(KeyOrder) \/ w.threw THEN w
  ELSE LET k == KeyOrder[i] IN
       IF settings[k] = NoProp THEN unpackFrom(w, settings, pu, du, i + 1)
       ELSE LET unpacker == UnpackerOf(pu, du, k)
                r == ApplyUnpacker(unpacker, settings[k])
                w1 == [w EXCEPT !.events = Append(@, Unpacked(k, unpacker, settings[k]))]
            IN IF r.threw THEN [w1 EXCEPT !.threw = TRUE]
               ELSE unpackFrom([w1 EXCEPT !.typedSettings[k] = r.v,
                                          !.trackedSettings = @ \cup {k}],
                               settings, pu, du, i + 1)

RECURSIVE initiateFrom(_, _, _, _)
RECURSIVE initiateFrom_Always(_, _, _, _)
RECURSIVE initiateFrom_Persists(_, _, _, _)
RECURSIVE initiateFrom_NoTrack(_, _, _, _)
RECURSIVE initiateFrom_AnyEntry(_, _, _, _)

\* the second loop with a persist of what each initiator returned
initiateFrom_Persists(w, settings, pu, i) ==
  IF i > Len(KeyOrder) \/ w.threw THEN w
  ELSE LET k == KeyOrder[i] IN
       IF pu[k].unpackInitiator # NoFn /\ settings[k] = NoProp
       THEN LET r == ApplyUnpacker(pu[k].unpackInitiator, Undefined)
                w1 == [w EXCEPT !.events = Append(@, Unpacked(k, pu[k].unpackInitiator, Undefined))]
            IN IF r.threw THEN [w1 EXCEPT !.threw = TRUE]
               ELSE initiateFrom_Persists(
                      persist([w1 EXCEPT !.typedSettings[k] = r.v,
                                         !.trackedSettings = @ \cup {k}], k, r.v),
                      settings, pu, i + 1)
       ELSE initiateFrom_Persists(w, settings, pu, i + 1)

\* the second loop calling an initiator for every key that has an entry in
\* packerUnpackers: the built-in one when the entry has a packer only
initiateFrom_AnyEntry(w, settings, pu, i) ==
  IF i > Len(KeyOrder) \/ w.threw THEN w
  ELSE LET k == KeyOrder[i]
           fn == IF pu[k].unpackInitiator # NoFn THEN pu[k].unpackInitiator
                 ELSE "jsonParseUnpackInitiator"
       IN
       IF pu[k] # NoOption /\ settings[k] = NoProp
       THEN LET r == ApplyUnpacker(fn, Undefined)
                w1 == [w EXCEPT !.events = Append(@, Unpacked(k, fn, Undefined))]
            IN IF r.threw THEN [w1 EXCEPT !.threw = TRUE]
               ELSE initiateFrom_AnyEntry([w1 EXCEPT !.typedSettings[k] = r.v,
                                                     !.trackedSettings = @ \cup {k}],
                                          settings, pu, i + 1)
       ELSE initiateFrom_AnyEntry(w, settings, pu, i + 1)

\* the second loop without track(k)
initiateFrom_NoTrack(w, settings, pu, i) ==
  IF i > Len(KeyOrder) \/ w.threw THEN w
  ELSE LET k == KeyOrder[i] IN
       IF pu[k].unpackInitiator # NoFn /\ settings[k] = NoProp
       THEN LET r == ApplyUnpacker(pu[k].unpackInitiator, Undefined)
                w1 == [w EXCEPT !.events = Append(@, Unpacked(k, pu[k].unpackInitiator, Undefined))]
            IN IF r.threw THEN [w1 EXCEPT !.threw = TRUE]
               ELSE initiateFrom_NoTrack([w1 EXCEPT !.typedSettings[k] = r.v],
                                         settings, pu, i + 1)
       ELSE initiateFrom_NoTrack(w, settings, pu, i + 1)

\* the constructor without its second loop
initiateFrom_Skipped(w, settings, pu, i) == w

\* the second loop without the test k in props.settings
initiateFrom_Always(w, settings, pu, i) ==
  IF i > Len(KeyOrder) \/ w.threw THEN w
  ELSE LET k == KeyOrder[i] IN
       IF pu[k].unpackInitiator # NoFn
       THEN LET r == ApplyUnpacker(pu[k].unpackInitiator, Undefined)
                w1 == [w EXCEPT !.events = Append(@, Unpacked(k, pu[k].unpackInitiator, Undefined))]
            IN IF r.threw THEN [w1 EXCEPT !.threw = TRUE]
               ELSE initiateFrom_Always([w1 EXCEPT !.typedSettings[k] = r.v,
                                                   !.trackedSettings = @ \cup {k}],
                                        settings, pu, i + 1)
       ELSE initiateFrom_Always(w, settings, pu, i + 1)

\* the constructor's second loop, over the entries of packerUnpackers from the i-th key on
initiateFrom(w, settings, pu, i) ==
  IF i > Len(KeyOrder) \/ w.threw THEN w
  ELSE LET k == KeyOrder[i] IN
       IF pu[k].unpackInitiator # NoFn /\ settings[k] = NoProp
       THEN LET r == ApplyUnpacker(pu[k].unpackInitiator, Undefined)
                w1 == [w EXCEPT !.events = Append(@, Unpacked(k, pu[k].unpackInitiator, Undefined))]
            IN IF r.threw THEN [w1 EXCEPT !.threw = TRUE]
               ELSE initiateFrom([w1 EXCEPT !.typedSettings[k] = r.v,
                                            !.trackedSettings = @ \cup {k}],
                                 settings, pu, i + 1)
       ELSE initiateFrom(w, settings, pu, i + 1)

\* new TypedSettingProps({settings, settingsStorage}, pu, {packer: dp, unpacker: du})
construct(settings, pu, du) ==
  LET w0 == [ typedSettings |-> [k \in Keys |-> NoProp], trackedSettings |-> {},
              accessedRegistry |-> <<>>, storage |-> settings,
              events |-> <<>>, threw |-> FALSE ]
  IN initiateFrom(unpackFrom(w0, settings, pu, du, 1), settings, pu, 1)

\* the fields after a call that left the wrapper w
Becomes(w) ==
  /\ typedSettings' = w.typedSettings
  /\ trackedSettings' = w.trackedSettings
  /\ accessedRegistry' = w.accessedRegistry
  /\ storage' = w.storage
  /\ events' = w.events
  /\ threw' = w.threw

\* the wrapper made of props whose settings are the items of the storage
Constructed(settings, pu, dp, du) ==
  LET w == construct(settings, pu, IF du # NoFn THEN du ELSE "jsonParseUnpackInitiator") IN
  /\ packerUnpackers = pu
  /\ defaultPackerUnpacker = [packer |-> dp, unpacker |-> du]
  /\ option = NoFn
  /\ defaultPacker = (IF dp # NoFn THEN dp ELSE "JSON.stringify")
  /\ defaultUnpackInitiator = (IF du # NoFn THEN du ELSE "jsonParseUnpackInitiator")
  /\ typedSettings = w.typedSettings
  /\ trackedSettings = w.trackedSettings
  /\ accessedRegistry = w.accessedRegistry
  /\ storage = w.storage
  /\ events = w.events
  /\ threw = w.threw
  /\ constructed = ~w.threw
  /\ last = [op |-> "constructor", settings |-> settings]

\* a packer that returns its argument packs strings only
WellTyped(value) ==
  \A i \in 1..Len(value) :
    PackerOf(packerUnpackers, defaultPacker, value[i][1]) = "identity"
      => value[i][2].t \in {"string", "undefined", "ASIS"}

\* the partial settings update() is called with: entries of distinct keys
Partials ==
  { p \in UNION { [1..n -> Keys \X UpdateValues] : n \in 1..MaxPartial } :
      \A i, j \in 1..Len(p) : p[i][1] = p[j][1] => i = j }

Init ==
  \E settings \in [Keys -> InitialRaws \cup {NoProp}], c \in Configurations :
    Constructed(settings, [k \in Keys |-> IF k = "a" THEN c.a ELSE c.b],
                c.d.packer, c.d.unpacker)

\* update(value)
Update(value) ==
  /\ constructed
  /\ WellTyped(value)
  /\ Becomes(update(Wrapper, value))
  /\ last' = [op |-> "update", value |-> value]
  /\ UNCHANGED <<packerUnpackers, defaultPackerUnpacker, defaultPacker, option, defaultUnpackInitiator,
                 constructed>>

\* commit()
Commit ==
  /\ constructed
  /\ Becomes(commit(Wrapper))
  /\ last' = [op |-> "commit"]
  /\ UNCHANGED <<packerUnpackers, defaultPackerUnpacker, defaultPacker, option, defaultUnpackInitiator,
                 constructed>>

\* getToUpdate()[key]: the getter when track(key) installed one, undefined otherwise
TrackedRead(key) ==
  /\ constructed
  /\ Becomes(IF key \in trackedSettings THEN trackedGet(Wrapper, key) ELSE Wrapper)
  /\ last' = [op |-> "getToUpdate", key |-> key, result |-> Read(getToUpdate(Wrapper), key)]
  /\ UNCHANGED <<packerUnpackers, defaultPackerUnpacker, defaultPacker, option, defaultUnpackInitiator,
                 constructed>>

\* get()[key].push(PushedElement), on the array the caller got from get() or getToUpdate()
PushInPlace(key) ==
  /\ constructed
  /\ typedSettings[key].t = "array"
  /\ Len(typedSettings[key].a) < MaxArrayLen
  /\ typedSettings' =
       pushThrough(getReference(Wrapper), Wrapper, key, PushedElement).typedSettings
  /\ events' = <<>>
  /\ threw' = FALSE
  /\ last' = [op |-> "push", key |-> key]
  /\ UNCHANGED <<storage, packerUnpackers, defaultPackerUnpacker, defaultPacker, option,
                 defaultUnpackInitiator,
                 trackedSettings, accessedRegistry, constructed>>

\* the settings page is rendered again: a new wrapper of the props of that moment,
\* whose settings are the items of the storage, with the same options
Construct ==
  LET w == construct(storage, packerUnpackers, defaultUnpackInitiator) IN
  /\ Becomes(w)
  /\ constructed' = ~w.threw
  /\ last' = [op |-> "constructor", settings |-> storage]
  /\ UNCHANGED <<packerUnpackers, defaultPackerUnpacker, defaultPacker, option, defaultUnpackInitiator>>

Next ==
  \/ \E value \in Partials : Update(value)
  \/ Commit
  \/ \E key \in Keys : TrackedRead(key)
  \/ \E key \in Keys : PushInPlace(key)
  \/ Construct

Spec == Init /\ [][Next]_vars

----------------------------------------------------------------------------
(* Round trips under the default options: update() of one setting with a   *)
(* value of any JSON shape, and a new wrapper made of the stored items.    *)

RoundTripValues ==
  { VStr(<<>>), VStr(<<"a">>), VStr(<<"4", "2">>), VStr(<<"t", "r", "u", "e">>),
    VStr(<<"[", "1", "]">>), VStr(<<QUOTE, "a", QUOTE>>), VStr(<<BACKSLASH>>),
    VNum(0), VNum(42), VBool(TRUE), VBool(FALSE), VNull,
    VArr(<<>>), VArr(<<VNum(1), VStr(<<"a">>)>>),
    VArr(<<VArr(<<VNum(1)>>), VObj(<< << <<"p">>, VBool(TRUE) >> >>)>>),
    VObj(<<>>), VObj(<< << <<"p">>, VStr(<<"a">>) >>, << <<"q">>, VArr(<<VNum(3)>>) >> >>),
    Undefined }

InitRoundTrip ==
  \E settings \in [Keys -> InitialRaws \cup {NoProp}] :
    Constructed(settings, [k \in Keys |-> NoOption], NoFn, NoFn)

NextRoundTrip ==
  \/ \E key \in Keys, v \in RoundTripValues : Update(<< <<key, v>> >>)
  \/ Construct

SpecRoundTrip == InitRoundTrip /\ [][NextRoundTrip]_vars

----------------------------------------------------------------------------
(* Properties *)

Range(s) == { s[i] : i \in 1..Len(s) }

IsCall(e) == e.ev \in {"setItem", "removeItem"}

\* the calls of settingsStorage among the events, and those for key k
Calls(ev) == SelectSeq(ev, IsCall)

CallsOf(ev, k) == SelectSeq(ev, LAMBDA e : IsCall(e) /\ e.key = k)

EventsOf(ev, k) == SelectSeq(ev, LAMBDA e : e.key = k)

\* the packer and the unpacker the options give key k: the key's own, else the default
ResolvedPacker(k) ==
  IF packerUnpackers[k].packer # NoFn THEN packerUnpackers[k].packer ELSE defaultPacker

ResolvedUnpacker(k) ==
  IF packerUnpackers[k].unpackInitiator # NoFn THEN packerUnpackers[k].unpackInitiator
  ELSE defaultUnpackInitiator

\* the one call that persists value v of key k
ExpectedCall(k, v) ==
  IF v = Undefined THEN RemoveItem(k)
  ELSE SetItem(k, ApplyPacker(ResolvedPacker(k), v).v)

DefaultPolicy ==
  /\ \A k \in Keys : packerUnpackers[k] = NoOption
  /\ defaultPacker = "JSON.stringify"
  /\ defaultUnpackInitiator = "jsonParseUnpackInitiator"

\* C1: under the default options, when update({k: v}) is followed by a new wrapper
\* made of the stored items, the new wrapper's setting k is v: a string (empty,
\* or itself JSON text), a number, a boolean, a nested array or object; and when
\* v is undefined the new wrapper has no setting k.
C1_RoundTrip ==
  [][(DefaultPolicy /\ last.op = "update" /\ ~threw /\ last'.op = "constructor")
       => /\ ~threw'
          /\ \A i \in 1..Len(last.value) :
               LET k == last.value[i][1]
                   v == last.value[i][2]
               IN v # ASIS => typedSettings'[k] = (IF v = Undefined THEN NoProp ELSE v)]_vars

C1_Witness ==
  /\ last.op = "constructor"
  /\ typedSettings["a"] = VStr(<<"4", "2">>)
  /\ typedSettings["b"] = VArr(<<VArr(<<VNum(1)>>), VObj(<< << <<"p">>, VBool(TRUE) >> >>)>>)

\* C2: commit() makes exactly one storage call for each key of the registry,
\* setItem(k, packer(setting)) or removeItem(k) when the setting is undefined,
\* and no call for any other key.
C2_CommitFlushesRegistry ==
  [][(last'.op = "commit" /\ ~threw')
       => \A k \in Keys :
            CallsOf(events', k) =
              (IF k \in Range(accessedRegistry)
               THEN <<ExpectedCall(k, Get(typedSettings, k))>> ELSE <<>>)]_vars

C2_Witness ==
  /\ last.op = "commit"
  /\ Len(Calls(events)) = 2
  /\ \E i, j \in 1..Len(events) : events[i].ev = "setItem" /\ events[j].ev = "removeItem"

\* C3: after commit() returns the registry is empty, it stays empty until a
\* setting is read through getToUpdate(), and a commit() with an empty
\* registry makes no storage call.
C3_CommitIdempotent ==
  [][/\ (last'.op = "commit" /\ ~threw') => accessedRegistry' = <<>>
     /\ (accessedRegistry = <<>> /\ last'.op # "getToUpdate") => accessedRegistry' = <<>>
     /\ (accessedRegistry = <<>> /\ last'.op = "commit") => Calls(events') = <<>>]_vars

C3_Witness ==
  /\ last.op = "commit"
  /\ events = <<>>
  /\ accessedRegistry = <<>>
  /\ \E k \in Keys : typedSettings[k].t = "array" /\ storage[k] = VStr(Stringify(typedSettings[k]))
                     /\ Len(typedSettings[k].a) = 2

\* C4: a commit() right after construction, whatever the stored items and the
\* options, makes no storage call and leaves the storage as it was.
C4_CommitAfterConstruction ==
  [][(last.op = "constructor" /\ ~threw /\ last'.op = "commit")
       => (Calls(events') = <<>> /\ storage' = storage)]_vars

C4_Witness ==
  /\ last.op = "commit"
  /\ events = <<>>
  /\ typedSettings["a"] = VNum(42)
  /\ storage["a"] = NoProp
  /\ typedSettings["b"] # NoProp
  /\ trackedSettings = Keys

\* C5: after update(value), for every entry (k, v) of value with v not ASIS,
\* get()[k] is v, and when v is not undefined the storage was called once for k,
\* setItem(k, packer(v)) with the packer of k, and holds that string.
C5_UpdateStoresAndPersists ==
  (last.op = "update" /\ ~threw)
    => \A i \in 1..Len(last.value) :
         LET k == last.value[i][1]
             v == last.value[i][2]
         IN v # ASIS =>
              /\ Get(typedSettings, k) = v
              /\ v # Undefined =>
                   /\ CallsOf(events, k) = <<SetItem(k, ApplyPacker(ResolvedPacker(k), v).v)>>
                   /\ storage[k] = ApplyPacker(ResolvedPacker(k), v).v

C5_Witness ==
  /\ last.op = "update"
  /\ Len(last.value) = 2
  /\ last.value[1] = <<"b", VArr(<<VNum(1)>>)>>
  /\ last.value[2][2] = VStr(<<"4", "2">>)
  /\ storage["a"] = VStr(<<"4", "2">>)

\* C6: update() with ASIS for key k persists the setting k holds at the call,
\* in-place changes included, and leaves typedSettings[k] as it was; when every
\* entry is ASIS the whole of typedSettings is as it was.
C6_AsisPersistsCurrent ==
  [][last'.op = "update"
       => /\ \A i \in 1..Len(last'.value) :
               LET k == last'.value[i][1] IN
               last'.value[i][2] = ASIS =>
                 /\ typedSettings'[k] = typedSettings[k]
                 /\ CallsOf(events', k) = <<ExpectedCall(k, Get(typedSettings, k))>>
          /\ (\A i \in 1..Len(last'.value) : last'.value[i][2] = ASIS)
               => typedSettings' = typedSettings]_vars

C6_Witness ==
  /\ last = [op |-> "update", value |-> << <<"b", ASIS>> >>]
  /\ typedSettings["b"] = VArr(<<VNum(1), PushedElement>>)
  /\ Calls(events) = <<SetItem("b", VStr(<<"[", "1", ",", "4", "]">>))>>

\* what update({k: ASIS}) and update({k: get()[k]}) each leave
AfterAsis(k) == update(Wrapper, << <<k, ASIS>> >>)

AfterCurrent(k) == update(Wrapper, << <<k, Get(typedSettings, k)>> >>)

\* C7 as claimed: update({k: ASIS}) and update({k: get()[k]}) make the same
\* calls and leave the same typedSettings and the same registry, for every key.
C7_AsisEqualsCurrent ==
  constructed => \A k \in Keys : AfterAsis(k) = AfterCurrent(k)

\* C7, amended: update({k: ASIS}) and update({k: get()[k]}) make the same calls,
\* leave the same storage and registry, and the same get()[j] for every key j;
\* they leave the same typedSettings when k is a property of it.  When k is no
\* property, update({k: get()[k]}) adds the property k, holding undefined.
C7_AsisReadsAsCurrent ==
  constructed =>
    \A k \in Keys :
      /\ AfterAsis(k).events = AfterCurrent(k).events
      /\ AfterAsis(k).storage = AfterCurrent(k).storage
      /\ AfterAsis(k).accessedRegistry = AfterCurrent(k).accessedRegistry
      /\ AfterAsis(k).threw = AfterCurrent(k).threw
      /\ \A j \in Keys : Get(AfterAsis(k).typedSettings, j) = Get(AfterCurrent(k).typedSettings, j)
      /\ typedSettings[k] # NoProp => AfterAsis(k) = AfterCurrent(k)
      /\ typedSettings[k] = NoProp =>
           /\ AfterAsis(k).typedSettings[k] = NoProp
           /\ AfterCurrent(k).typedSettings[k] = Undefined

C7_Witness ==
  /\ last = [op |-> "update", value |-> << <<"a", ASIS>> >>]
  /\ typedSettings["a"] = VArr(<<VNum(1), PushedElement>>)
  /\ typedSettings["b"] = NoProp
  /\ accessedRegistry = <<"a">>

\* C8: update() with undefined for key k calls removeItem(k) once and setItem
\* for k never, and afterwards get()[k] is undefined and the storage has no item k.
C8_UpdateUndefinedRemoves ==
  (last.op = "update" /\ ~threw)
    => \A i \in 1..Len(last.value) :
         LET k == last.value[i][1] IN
         last.value[i][2] = Undefined =>
           /\ CallsOf(events, k) = <<RemoveItem(k)>>
           /\ Get(typedSettings, k) = Undefined
           /\ storage[k] = NoProp
           /\ Len(last.value) = 1 => Calls(events) = <<RemoveItem(k)>>

C8_Witness ==
  /\ last = [op |-> "update", value |-> << <<"b", Undefined>> >>]
  /\ events = <<RemoveItem("b")>>
  /\ typedSettings["b"] = Undefined
  /\ "b" \in Range(accessedRegistry)

\* C9: no packer is ever called with undefined; when update() or commit()
\* persists a key whose setting is undefined, all it does for that key is
\* removeItem.
C9_NoPackOfUndefined ==
  [][/\ \A i \in 1..Len(events') :
          events'[i].ev = "pack" => events'[i].arg \notin {Undefined, NoProp}
     /\ last'.op = "update" =>
          \A i \in 1..Len(last'.value) :
            LET k == last'.value[i][1]
                v == last'.value[i][2]
                val == IF v = ASIS THEN Get(typedSettings, k) ELSE v
            IN val = Undefined => EventsOf(events', k) = <<RemoveItem(k)>>
     /\ last'.op = "commit" =>
          \A k \in Range(accessedRegistry) :
            Get(typedSettings, k) = Undefined => EventsOf(events', k) = <<RemoveItem(k)>>]_vars

C9_Witness ==
  /\ last.op = "commit"
  /\ events = <<RemoveItem("a")>>
  /\ typedSettings["a"] = Undefined

\* C10: a key with a packer (an unpackInitiator) of its own is packed
\* (unpacked) with it, not with the default one, configured or built in; a key
\* with none is packed (unpacked) with the default, whatever the other keys have.
C10_OwnPackerFirst ==
  /\ \A i \in 1..Len(events) :
       LET e == events[i] IN
       /\ e.ev = "pack" =>
            /\ e.fn = (IF packerUnpackers[e.key].packer # NoFn
                       THEN packerUnpackers[e.key].packer ELSE defaultPacker)
            /\ ~threw => (i < Len(events) /\ events[i + 1] = SetItem(e.key, ApplyPacker(e.fn, e.arg).v))
       /\ e.ev = "setItem" => (i > 1 /\ events[i - 1].ev = "pack" /\ events[i - 1].key = e.key)
       /\ e.ev = "unpack" =>
            e.fn = (IF packerUnpackers[e.key].unpackInitiator # NoFn
                    THEN packerUnpackers[e.key].unpackInitiator ELSE defaultUnpackInitiator)
  /\ (last.op = "constructor" /\ ~threw) =>
       \A k \in Keys :
         last.settings[k] # NoProp =>
           typedSettings[k] = ApplyUnpacker(ResolvedUnpacker(k), last.settings[k]).v

C10_Witness ==
  /\ packerUnpackers["a"] = Option("JSON.stringify", "jsonParseUnpackInitiator")
  /\ defaultPacker = "stringifyNonString"
  /\ defaultUnpackInitiator = "identity"
  /\ last.op = "update"
  /\ events = << Packed("a", "JSON.stringify", VStr(<<"4", "2">>)),
                 SetItem("a", VStr(<<QUOTE, "4", "2", QUOTE>>)),
                 Packed("b", "stringifyNonString", VStr(<<"4", "2">>)),
                 SetItem("b", VStr(<<"4", "2">>)) >>

\* the packer and the unpacker of key k by the three tiers: the key's own, else
\* the one the constructor's third argument gives, else the built-in one
ThreeTierPacker(k) ==
  IF packerUnpackers[k].packer # NoFn THEN packerUnpackers[k].packer
  ELSE IF defaultPackerUnpacker.packer # NoFn THEN defaultPackerUnpacker.packer
  ELSE "JSON.stringify"

ThreeTierUnpacker(k) ==
  IF packerUnpackers[k].unpackInitiator # NoFn THEN packerUnpackers[k].unpackInitiator
  ELSE IF defaultPackerUnpacker.unpacker # NoFn THEN defaultPackerUnpacker.unpacker
  ELSE "jsonParseUnpackInitiator"

\* C11: each direction is resolved by itself.  Every packer call on key k is of
\* k's own packer, else of the packer of the default options, else of
\* JSON.stringify, and what is stored is its result; every unpacker call is of
\* k's own unpackInitiator, else of the unpacker of the default options, else of
\* jsonParseUnpackInitiator, and the setting after construction is its result;
\* whether k or the default options give the other direction makes no difference.
C11_ThreeTiers ==
  /\ \A i \in 1..Len(events) :
       LET e == events[i] IN
       /\ e.ev = "pack" => e.fn = ThreeTierPacker(e.key)
       /\ e.ev = "unpack" => e.fn = ThreeTierUnpacker(e.key)
       /\ e.ev = "setItem" =>
            /\ i > 1
            /\ events[i - 1].ev = "pack"
            /\ e.value = ApplyPacker(ThreeTierPacker(e.key), events[i - 1].arg).v
  /\ (last.op = "constructor" /\ ~threw) =>
       \A k \in Keys :
         last.settings[k] # NoProp =>
           typedSettings[k] = ApplyUnpacker(ThreeTierUnpacker(k), last.settings[k]).v

C11_Witness ==
  /\ packerUnpackers["a"] = Option("stringifyNonString", NoFn)
  /\ defaultPackerUnpacker = [packer |-> NoFn, unpacker |-> "parseOr42"]
  /\ storage["a"] = VStr(<<>>)
  /\ typedSettings["a"] = VNum(42)
  /\ last.op = "update"
  /\ events = << Packed("b", "JSON.stringify", VStr(<<"4", "2">>)),
                 SetItem("b", VStr(<<QUOTE, "4", "2", QUOTE>>)) >>

\* C12: after construction, a key that has an unpackInitiator of its own and no
\* item in props.settings has had that unpackInitiator called once, with
\* undefined, and nothing else; its setting is what the call returned.
C12_InitiatorCalledOnce ==
  (last.op = "constructor" /\ ~threw) =>
    \A k \in Keys :
      (packerUnpackers[k].unpackInitiator # NoFn /\ last.settings[k] = NoProp) =>
        /\ EventsOf(events, k) = <<Unpacked(k, packerUnpackers[k].unpackInitiator, Undefined)>>
        /\ typedSettings[k] = ApplyUnpacker(packerUnpackers[k].unpackInitiator, Undefined).v

C12_Witness ==
  /\ last.op = "constructor"
  /\ last.settings["b"] = NoProp
  /\ last.settings["a"] = VStr(<<"[", "1", "]">>)
  /\ packerUnpackers["b"] = Option(NoFn, "parseOr42")
  /\ typedSettings["b"] = VNum(42)
  /\ events = << Unpacked("a", "jsonParseUnpackInitiator", VStr(<<"[", "1", "]">>)),
                 Unpacked("b", "parseOr42", Undefined) >>

\* C13: after construction, a key that has an item s in props.settings has had
\* its unpacker called once, with s, and its setting is what that call
\* returned; no unpackInitiator is ever called with undefined for such a key.
C13_StoredItemWins ==
  /\ (last.op = "constructor" /\ ~threw) =>
       \A k \in Keys :
         last.settings[k] # NoProp =>
           /\ EventsOf(events, k) = <<Unpacked(k, ResolvedUnpacker(k), last.settings[k])>>
           /\ typedSettings[k] = ApplyUnpacker(ResolvedUnpacker(k), last.settings[k]).v
  /\ last.op = "constructor" =>
       \A i \in 1..Len(events) :
         (events[i].ev = "unpack" /\ last.settings[events[i].key] # NoProp)
           => events[i].arg = last.settings[events[i].key]

C13_Witness ==
  /\ last.op = "constructor"
  /\ packerUnpackers["a"] = Option(NoFn, "parseOr42")
  /\ last.settings["a"] = VStr(<<"[", "1", "]">>)
  /\ typedSettings["a"] = VArr(<<VNum(1)>>)
  /\ EventsOf(events, "a") = <<Unpacked("a", "parseOr42", VStr(<<"[", "1", "]">>))>>

\* C14 as claimed: under the default options, construction does not throw, an
\* item of props.settings that is not JSON text is loaded as that very string,
\* and a string setting is stored by update() and commit() as its JSON text,
\* in quotes.
C14_FallbackKeepsString ==
  DefaultPolicy =>
    /\ last.op = "constructor" =>
         /\ ~threw
         /\ \A k \in Keys :
              (last.settings[k] # NoProp /\ ~JsonParse(last.settings[k].s).ok)
                => typedSettings[k] = last.settings[k]
    /\ \A i \in 1..Len(events) :
         (events[i].ev = "pack" /\ IsString(events[i].arg))
           => events[i + 1] = SetItem(events[i].key, VStr(QuoteString(events[i].arg.s)))

\* C15 as claimed: under the default options, after construction a key whose
\* item in props.settings is the empty string has the empty string for its
\* setting, and a key with no item has no setting.
C15_EmptyStringIsPresent ==
  (DefaultPolicy /\ last.op = "constructor" /\ ~threw) =>
    \A k \in Keys :
      /\ last.settings[k] = VStr(<<>>) => Get(typedSettings, k) = VStr(<<>>)
      /\ last.settings[k] = NoProp => Get(typedSettings, k) = Undefined

\* C16 as claimed: whenever a key that has a setting, however it came to have
\* it, is read through getToUpdate(), the read returns get()[key] and the key
\* is in the registry afterwards.
C16_TrackedViewCoversSettings ==
  (last.op = "getToUpdate" /\ Get(typedSettings, last.key) # Undefined) =>
    /\ last.result = Get(typedSettings, last.key)
    /\ last.key \in Range(accessedRegistry)

\* C17: right after construction, whatever the stored items and the options,
\* getToUpdate() has the property names of get() and gives each the same value.
C17_TrackedViewAfterConstruction ==
  (last.op = "constructor" /\ ~threw) => getToUpdate(Wrapper) = get(Wrapper)

C17_Witness ==
  /\ last.op = "constructor"
  /\ DOMAIN getToUpdate(Wrapper) = Keys
  /\ typedSettings["a"] = Undefined
  /\ typedSettings["b"] = VNum(42)
  /\ storage["b"] = NoProp

\* C18: the registry is empty after construction, and a step that adds a key
\* to the registry is a read of that key through getToUpdate(); update(),
\* commit(), an in-place change through get() and a new construction add none.
C18_DirtyOnlyByTrackedRead ==
  [][/\ \A k \in Range(accessedRegistry') \ Range(accessedRegistry) :
          last'.op = "getToUpdate" /\ last'.key = k
     /\ last.op = "constructor" => accessedRegistry = <<>>
     /\ last'.op = "constructor" => accessedRegistry' = <<>>]_vars

C18_Witness ==
  /\ last.op = "push"
  /\ last.key = "a"
  /\ accessedRegistry = <<"b">>
  /\ typedSettings["a"] = VArr(<<VNum(1), PushedElement>>)
  /\ storage["a"] = VStr(<<"[", "1", "]">>)

\* C19: update() leaves the registry as it was; and when a key of the registry
\* is given a value by update() and commit() is called next, commit() persists
\* that key again, with the value update() gave it.
C19_UpdateLeavesRegistry ==
  [][/\ last'.op = "update" => accessedRegistry' = accessedRegistry
     /\ (last.op = "update" /\ ~threw /\ last'.op = "commit" /\ ~threw') =>
          \A i \in 1..Len(last.value) :
            LET k == last.value[i][1]
                v == last.value[i][2]
            IN (v # ASIS /\ k \in Range(accessedRegistry)) =>
                 CallsOf(events', k) = <<ExpectedCall(k, v)>>]_vars

C19_Witness ==
  /\ last = [op |-> "update", value |-> << <<"a", VStr(<<"4", "2">>)>> >>]
  /\ accessedRegistry = <<"b", "a">>
  /\ storage["a"] = VStr(<<QUOTE, "4", "2", QUOTE>>)

C21_WritesOnlyInUpdateAndCommit ==
  [][/\ last.op = "constructor" => Calls(events) = <<>>
     /\ last'.op \in {"constructor", "getToUpdate", "push"}
          => (Calls(events') = <<>> /\ storage' = storage)
     /\ storage' # storage => last'.op \in {"update", "commit"}]_vars

C21_Witness ==
  /\ last.op = "constructor"
  /\ Len(events) = 2
  /\ typedSettings["a"] = VArr(<<VNum(1), PushedElement>>)
  /\ typedSettings["b"] = VNum(42)
  /\ storage["b"] = NoProp

\* the names of the properties of the partial settings value
KeysOf(value) == { value[i][1] : i \in 1..Len(value) }

\* C23: update(value) leaves every key that value does not name as it was:
\* its setting, its item in the storage, and no packer or storage call for it.
C23_UpdateFrame ==
  [][last'.op = "update" =>
       \A j \in Keys \ KeysOf(last'.value) :
         /\ typedSettings'[j] = typedSettings[j]
         /\ storage'[j] = storage[j]
         /\ EventsOf(events', j) = <<>>]_vars

C23_Witness ==
  /\ last = [op |-> "update", value |-> << <<"a", Undefined>> >>]
  /\ typedSettings["b"] = VArr(<<VNum(1), PushedElement>>)
  /\ storage["b"] = VStr(<<"[", "1", "]">>)
  /\ events = <<RemoveItem("a")>>

\* the place of key k among the properties of the partial settings value
IndexIn(value, k) == CHOOSE i \in 1..Len(value) : value[i][1] = k

\* C24: update(value) makes one storage call for each property of value, in
\* the order of the properties, the packer call and the storage call of a key
\* before those of the next, also when the value given is the one the setting
\* has and the storage holds.
C24_UpdateCallsInOrder ==
  [][(last'.op = "update" /\ ~threw') =>
       /\ Len(Calls(events')) = Len(last'.value)
       /\ \A i \in 1..Len(last'.value) :
            LET k == last'.value[i][1]
                v == last'.value[i][2]
            IN Calls(events')[i] =
                 ExpectedCall(k, IF v = ASIS THEN Get(typedSettings, k) ELSE v)
       /\ \A i, j \in 1..Len(events') :
            i < j => IndexIn(last'.value, events'[i].key) <= IndexIn(last'.value, events'[j].key)]_vars

C24_Witness ==
  /\ last = [op |-> "update",
              value |-> << <<"b", VStr(<<"4", "2">>)>>, <<"a", Undefined>> >>]
  /\ events = << Packed("b", "JSON.stringify", VStr(<<"4", "2">>)),
                 SetItem("b", VStr(<<QUOTE, "4", "2", QUOTE>>)),
                 RemoveItem("a") >>

----------------------------------------------------------------------------
(* The wrapper among others: another party writes to the storage, and the  *)
(* caller changes the option objects it gave the constructor.              *)

\* the strings another party stores
OutsideRaws == { VStr(<<"a">>) }

\* the packers the caller puts in its option objects after construction
OutsidePackers == { "JSON.stringify", "stringifyNonString" }

\* the options of the one wrapper: packerUnpackers and defaultPackerUnpacker
OutsidePackerUnpackers ==
  [k \in Keys |-> IF k = "a" THEN Option("stringifyNonString", NoFn) ELSE NoOption]

OutsideDefaultPackerUnpacker ==
  [packer |-> "JSON.stringify", unpacker |-> "jsonParseUnpackInitiator"]

InitOutside ==
  \E settings \in [Keys -> InitialRaws \cup {NoProp}] :
    Constructed(settings, OutsidePackerUnpackers,
                OutsideDefaultPackerUnpacker.packer, OutsideDefaultPackerUnpacker.unpacker)

\* another party calls settingsStorage.setItem(key, s), or removeItem(key) for NoProp
ExternalWrite(key, s) ==
  /\ constructed
  /\ storage' = [storage EXCEPT ![key] = s]
  /\ events' = <<>>
  /\ threw' = FALSE
  /\ last' = [op |-> "external", key |-> key]
  /\ UNCHANGED <<packerUnpackers, defaultPackerUnpacker, defaultPacker, option, defaultUnpackInitiator,
                 typedSettings, trackedSettings, accessedRegistry, constructed>>

\* the caller assigns packer to the entry of key in the object it gave as packerUnpackers,
\* which is the object this.packerUnpackers refers to
MutatePackerUnpackers(key, packer) ==
  /\ constructed
  /\ packerUnpackers' = [packerUnpackers EXCEPT ![key].packer = packer]
  /\ events' = <<>>
  /\ threw' = FALSE
  /\ last' = [op |-> "mutate", key |-> key]
  /\ UNCHANGED <<storage, defaultPackerUnpacker, defaultPacker, option, defaultUnpackInitiator,
                 typedSettings, trackedSettings, accessedRegistry, constructed>>

\* the caller assigns packer to the object it gave as defaultPackerUnpacker;
\* this.defaultPacker keeps the function it was given at construction
MutateDefaultPackerUnpacker(packer) ==
  /\ constructed
  /\ defaultPackerUnpacker' = [defaultPackerUnpacker EXCEPT !.packer = packer]
  /\ events' = <<>>
  /\ threw' = FALSE
  /\ last' = [op |-> "mutateDefault"]
  /\ UNCHANGED <<storage, packerUnpackers, defaultPacker, option, defaultUnpackInitiator,
                 typedSettings, trackedSettings, accessedRegistry, constructed>>

NextOutside ==
  \/ \E value \in Partials : Update(value)
  \/ Commit
  \/ \E key \in Keys : TrackedRead(key)
  \/ \E key \in Keys : PushInPlace(key)
  \/ \E key \in Keys, s \in OutsideRaws \cup {NoProp} : ExternalWrite(key, s)

SpecOutside == InitOutside /\ [][NextOutside]_vars

NextMutate ==
  \/ \E value \in Partials : Update(value)
  \/ Commit
  \/ \E key \in Keys : TrackedRead(key)
  \/ \E key \in Keys : PushInPlace(key)
  \/ \E key \in Keys, packer \in OutsidePackers : MutatePackerUnpackers(key, packer)
  \/ \E packer \in OutsidePackers : MutateDefaultPackerUnpacker(packer)

SpecMutate == InitOutside /\ [][NextMutate]_vars

\* the wrapper w with item s under key k of the storage
WithItem(w, k, s) == [w EXCEPT !.storage[k] = s]

\* what the caller can see of the wrapper w: the settings, the tracked
\* settings, the registry, and the packer, unpacker and storage calls made
Seen(w) == <<get(w), getToUpdate(w), w.accessedRegistry, w.events, w.threw>>

\* C22: nothing the caller gets from the wrapper depends on what the storage
\* holds after construction: with any other item under any key, as another
\* party's write leaves it, get() and getToUpdate() are the same, and a read
\* through getToUpdate(), update() and commit() give the same settings and
\* make the same calls.
C22_StorageReadOnlyAtConstruction ==
  constructed =>
    \A k \in Keys, s \in OutsideRaws \cup {NoProp} :
      /\ Seen(WithItem(Wrapper, k, s)) = Seen(Wrapper)
      /\ Seen(commit(WithItem(Wrapper, k, s))) = Seen(commit(Wrapper))
      /\ \A key \in trackedSettings :
           Seen(trackedGet(WithItem(Wrapper, k, s), key)) = Seen(trackedGet(Wrapper, key))
      /\ \A value \in Partials :
           Seen(update(WithItem(Wrapper, k, s), value)) = Seen(update(Wrapper, value))

C22_Witness ==
  /\ last.op = "getToUpdate"
  /\ last.key = "b"
  /\ last.result = VStr(<<"4", "2">>)
  /\ storage["b"] = VStr(<<"a">>)
  /\ typedSettings["b"] = VStr(<<"4", "2">>)

\* C26 as claimed: every packer call on a key is of the packer resolved from
\* the options as they were at construction, whatever the caller has assigned
\* to the option objects since.
C26_PolicyFixedAtConstruction ==
  \A i \in 1..Len(events) :
    events[i].ev = "pack" =>
      events[i].fn =
        (IF OutsidePackerUnpackers[events[i].key].packer # NoFn
         THEN OutsidePackerUnpackers[events[i].key].packer
         ELSE OutsideDefaultPackerUnpacker.packer)

----------------------------------------------------------------------------
(* Packers and unpackers of the caller's that throw *)

ThrowConfigurations ==
  { [a |-> Option("packString", "parseOr42"), b |-> NoOption,
     d |-> [packer |-> NoFn, unpacker |-> NoFn]],
    [a |-> NoOption, b |-> NoOption,
     d |-> [packer |-> "packString", unpacker |-> "parseOr42"]] }

InitThrow ==
  \E settings \in [Keys -> InitialRaws \cup {NoProp}], c \in ThrowConfigurations :
    Constructed(settings, [k \in Keys |-> IF k = "a" THEN c.a ELSE c.b],
                c.d.packer, c.d.unpacker)

SpecThrow == InitThrow /\ [][Next]_vars

\* whether the packer or unpacker call e threw
Throws(e) ==
  \/ e.ev = "pack" /\ ApplyPacker(e.fn, e.arg).threw
  \/ e.ev = "unpack" /\ ApplyUnpacker(e.fn, e.arg).threw

\* C25: a call of the wrapper throws exactly when a packer or unpacker it
\* called threw, and that call is the last thing it did: no other packer,
\* unpacker or storage call follows.  A construction that throws leaves no
\* wrapper; update() and commit() throw from persist().
C25_CodecErrorPropagates ==
  /\ threw <=> \E i \in 1..Len(events) : Throws(events[i])
  /\ \A i \in 1..Len(events) : Throws(events[i]) => i = Len(events)
  /\ last.op = "constructor" => (constructed <=> ~threw)
  /\ threw =>
       \/ last.op = "constructor" /\ events[Len(events)].ev = "unpack"
       \/ last.op \in {"update", "commit"} /\ events[Len(events)].ev = "pack"

C25_Witness ==
  /\ threw
  /\ last.op = "commit"
  /\ accessedRegistry = <<"b", "a">>
  /\ events = << Packed("b", "packString", VStr(<<"4", "2">>)), SetItem("b", VStr(<<"4", "2">>)),
                 Packed("a", "packString", VArr(<<VNum(1)>>)) >>

UnpackedToUndefined ==
  { events[i].key : i \in { j \in 1..Len(events) :
      events[j].ev = "unpack" /\ ApplyUnpacker(events[j].fn, events[j].arg) = Returned(Undefined) } }

\* C28 as claimed: after construction, a key whose unpacker, called with its
\* item or as initiator, returned undefined is no property of get() and none
\* of getToUpdate().
C28_AbsentResultOmitted ==
  (last.op = "constructor" /\ ~threw) =>
    \A k \in UnpackedToUndefined :
      k \notin DOMAIN get(Wrapper) /\ k \notin DOMAIN getToUpdate(Wrapper)

\* C28, amended: after construction, a key whose unpacker returned undefined
\* is a property of get() holding undefined and has a getter on getToUpdate()
\* that returns undefined; the keys no unpacker was called for are the ones
\* that are properties of neither.
C28_AbsentResultIsStored ==
  (last.op = "constructor" /\ ~threw) =>
    /\ \A k \in UnpackedToUndefined :
         /\ typedSettings[k] = Undefined
         /\ k \in DOMAIN get(Wrapper)
         /\ k \in DOMAIN getToUpdate(Wrapper)
         /\ Read(getToUpdate(Wrapper), k) = Undefined
    /\ \A k \in Keys :
         EventsOf(events, k) = <<>> <=>
           (k \notin DOMAIN get(Wrapper) /\ k \notin DOMAIN getToUpdate(Wrapper))

C28_Witness ==
  /\ last.op = "constructor"
  /\ DefaultPolicy
  /\ last.settings["a"] = VStr(<<>>)
  /\ last.settings["b"] = NoProp
  /\ typedSettings["a"] = Undefined
  /\ trackedSettings = {"a"}

----------------------------------------------------------------------------
(* Round trips with strings stored as they are: stringifyNonString for the *)
(* default packer, and the built-in unpacker.                              *)

InitNonString ==
  \E settings \in [Keys -> InitialRaws \cup {NoProp}] :
    Constructed(settings, [k \in Keys |-> NoOption], "stringifyNonString", NoFn)

SpecNonString == InitNonString /\ [][NextRoundTrip]_vars

\* what the claim says a new wrapper has for a setting that update() was given as v
LoadedUnquoted(v) ==
  IF v = Undefined THEN NoProp
  ELSE IF IsString(v) /\ JsonParse(v.s).ok THEN JsonParse(v.s).v
  ELSE v

\* C29 as claimed: with stringifyNonString for the default packer and the
\* built-in unpacker, when update({k: v}) is followed by a new wrapper made of
\* the stored items, the new wrapper's setting k is the parsed value when v is
\* a string that is JSON text ('42' gives the number 42), and v itself when v
\* is a string that is not JSON text, a number, an object or an array.
C29_UnquotedRoundTrip ==
  [][(last.op = "update" /\ ~threw /\ last'.op = "constructor")
       => /\ ~threw'
          /\ \A i \in 1..Len(last.value) :
               typedSettings'[last.value[i][1]] = LoadedUnquoted(last.value[i][2])]_vars

----------------------------------------------------------------------------
(* The wrapper of version 1.0.3: one option of StringifyParseOptions for   *)
(* all keys, in place of packers and unpackers.  Keys are sequences of     *)
(* characters, as the option DD looks at how a key ends.                   *)

StringifyParseOptions == { "AA", "DA", "DD" }

OptionKeyOrder == << <<"n">>, <<"n", "_", "s">>, <<"n", "_", "S">> >>

OptionKeys == { OptionKeyOrder[i] : i \in 1..Len(OptionKeyOrder) }

\* the strings props.settings may hold, and the values update() is given
OptionRaws == { VStr(<<"4", "2">>), VStr(<<"a">>) }

OptionValues == { VStr(<<"4", "2">>), VStr(<<"a">>), VStr(<<>>), VNum(42), Undefined, ASIS }

\* k.endsWith(suffix)
endsWith(k, suffix) ==
  /\ Len(k) >= Len(suffix)
  /\ SubSeq(k, Len(k) - Len(suffix) + 1, Len(k)) = suffix

\* the test with the lower-case suffix only
attemptsParse_LowerOnly(opt, k) ==
  \/ opt = "AA"
  \/ opt = "DA"
  \/ opt = "DD" /\ ~endsWith(k, <<"_", "s">>)

\* whether the constructor attempts JSON.parse on the item of key k
attemptsParse(opt, k) ==
  \/ opt = "AA"
  \/ opt = "DA"
  \/ opt = "DD" /\ ~endsWith(k, <<"_", "s">>) /\ ~endsWith(k, <<"_", "S">>)

\* the constructor's loop over the entries of props.settings from the i-th key on
RECURSIVE unpackWithOption(_, _, _, _)
unpackWithOption(w, settings, opt, i) ==
  IF i > Len(OptionKeyOrder) THEN w
  ELSE LET k == OptionKeyOrder[i] IN
       IF settings[k] = NoProp THEN unpackWithOption(w, settings, opt, i + 1)
       ELSE LET v == settings[k]
                r == JsonParse(v.s)
                val == IF attemptsParse(opt, k) /\ r.ok THEN r.v ELSE v
            IN unpackWithOption([w EXCEPT !.typedSettings[k] = val,
                                          !.trackedSettings = @ \cup {k}],
                                settings, opt, i + 1)

\* new TypedSettingProps({settings, settingsStorage}, opt)
constructWithOption(settings, opt) ==
  unpackWithOption([ typedSettings |-> [k \in OptionKeys |-> NoProp], trackedSettings |-> {},
                     accessedRegistry |-> <<>>, storage |-> settings,
                     events |-> <<>>, threw |-> FALSE ], settings, opt, 1)

\* persist(key, val)
persistWithOption(w, opt, key, val) ==
  IF val = Undefined
  THEN [w EXCEPT !.storage[key] = NoProp, !.events = Append(@, RemoveItem(key))]
  ELSE IF opt = "AA" \/ ~IsString(val)
  THEN [w EXCEPT !.storage[key] = JsonStringify(val),
                 !.events = Append(@, SetItem(key, JsonStringify(val)))]
  ELSE [w EXCEPT !.storage[key] = val, !.events = Append(@, SetItem(key, val))]

\* update({key: v})
updateWithOption(w, opt, key, v) ==
  LET w1 == IF v = ASIS THEN w ELSE [w EXCEPT !.typedSettings[key] = v]
      val == IF v = ASIS THEN Get(w.typedSettings, key) ELSE v
  IN persistWithOption(w1, opt, key, val)

InitWithOption ==
  \E settings \in [OptionKeys -> OptionRaws \cup {NoProp}], opt \in StringifyParseOptions :
    /\ typedSettings = constructWithOption(settings, opt).typedSettings
    /\ trackedSettings = constructWithOption(settings, opt).trackedSettings
    /\ accessedRegistry = <<>>
    /\ storage = settings
    /\ events = <<>>
    /\ threw = FALSE
    /\ option = opt
    /\ constructed = TRUE
    /\ last = [op |-> "constructor", settings |-> settings]
    /\ packerUnpackers = NoFn
    /\ defaultPackerUnpacker = NoFn
    /\ defaultPacker = NoFn
    /\ defaultUnpackInitiator = NoFn

UpdateWithOption(key, v) ==
  /\ Becomes(updateWithOption(Wrapper, option, key, v))
  /\ last' = [op |-> "update", value |-> << <<key, v>> >>]
  /\ UNCHANGED <<packerUnpackers, defaultPackerUnpacker, defaultPacker, defaultUnpackInitiator,
                 option, constructed>>

\* a new wrapper of the props of that moment, with the same option
ConstructWithOption ==
  /\ Becomes(constructWithOption(storage, option))
  /\ last' = [op |-> "constructor", settings |-> storage]
  /\ UNCHANGED <<packerUnpackers, defaultPackerUnpacker, defaultPacker, defaultUnpackInitiator,
                 option, constructed>>

NextWithOption ==
  \/ \E key \in OptionKeys, v \in OptionValues : UpdateWithOption(key, v)
  \/ ConstructWithOption

SpecWithOption == InitWithOption /\ [][NextWithOption]_vars

\* what JSON.parse with the fallback of the catch leaves of the string v
ParsedOrKept(v) == IF JsonParse(v.s).ok THEN JsonParse(v.s).v ELSE v

----------------------------------------------------------------------------
(* A scenario: a wrapper with the default options of a storage that holds  *)
(* a string and an array, and the calls made on it since, in order.        *)

\* the most calls made on the wrapper of the scenario
ScenarioLen == 4

ScenarioSettings ==
  [k \in Keys |-> IF k = "a" THEN VStr(<<QUOTE, "h", "e", "l", "l", "o", QUOTE>>)
                  ELSE VStr(<<"[", "1", ",", "2", ",", "3", "]">>)]

\* the values update() is called with in the scenario
ScenarioValues == { VNum(42), VStr(<<"h", "e", "l", "l", "o">>), ASIS }

UpdateCall(key, v) == [op |-> "update", key |-> key, value |-> v]

ReadCall(key) == [op |-> "getToUpdate", key |-> key]

PushCall(key) == [op |-> "push", key |-> key]

CommitCall == [op |-> "commit"]

InitScenario ==
  LET w == construct(ScenarioSettings, [k \in Keys |-> NoOption], "jsonParseUnpackInitiator") IN
  /\ packerUnpackers = [k \in Keys |-> NoOption]
  /\ defaultPackerUnpacker = [packer |-> NoFn, unpacker |-> NoFn]
  /\ option = NoFn
  /\ defaultPacker = "JSON.stringify"
  /\ defaultUnpackInitiator = "jsonParseUnpackInitiator"
  /\ typedSettings = w.typedSettings
  /\ trackedSettings = w.trackedSettings
  /\ accessedRegistry = w.accessedRegistry
  /\ storage = w.storage
  /\ events = w.events
  /\ threw = w.threw
  /\ constructed = ~w.threw
  /\ last = [op |-> "constructor", settings |-> ScenarioSettings, history |-> <<>>]

\* the call, made on the wrapper as it is, leaves the wrapper w
ScenarioCall(call, w) ==
  /\ constructed
  /\ Len(last.history) < ScenarioLen
  /\ Becomes(w)
  /\ last' = [op |-> call.op, settings |-> last.settings, history |-> Append(last.history, call)]
  /\ UNCHANGED <<packerUnpackers, defaultPackerUnpacker, defaultPacker, option,
                 defaultUnpackInitiator, constructed>>

\* update({key: v})
ScenarioUpdate(key, v) ==
  ScenarioCall(UpdateCall(key, v), update(Wrapper, << <<key, v>> >>))

\* getToUpdate()[key]
ScenarioRead(key) ==
  ScenarioCall(ReadCall(key), IF key \in trackedSettings THEN trackedGet(Wrapper, key) ELSE Wrapper)

\* push(PushedElement) on the array read under key
ScenarioPush(key) ==
  /\ typedSettings[key].t = "array"
  /\ ScenarioCall(PushCall(key), pushThrough(getReference(Wrapper), Wrapper, key, PushedElement))

\* commit()
ScenarioCommit == ScenarioCall(CommitCall, commit(Wrapper))

NextScenario ==
  \/ \E key \in Keys, v \in ScenarioValues : ScenarioUpdate(key, v)
  \/ \E key \in Keys : ScenarioRead(key)
  \/ \E key \in Keys : ScenarioPush(key)
  \/ ScenarioCommit

SpecScenario == InitScenario /\ [][NextScenario]_vars

\* C31: the wrapper made with the default options of the storage
\* {a: '"hello"', b: '[1,2,3]'} has get() = {a: 'hello', b: [1,2,3]}; the
\* update({a: 42}) that follows makes one call of the storage, setItem('a',
\* '42'), and leaves get().a = 42; and after reading b through getToUpdate()
\* and pushing 4 on it, commit() makes one call of the storage,
\* setItem('b', '[1,2,3,4]'), and so none for a.
C31_Scenario ==
  /\ last.history = <<>> =>
       /\ get(Wrapper) = [k \in Keys |-> IF k = "a" THEN VStr(<<"h", "e", "l", "l", "o">>)
                                         ELSE VArr(<<VNum(1), VNum(2), VNum(3)>>)]
       /\ Calls(events) = <<>>
  /\ last.history = <<UpdateCall("a", VNum(42))>> =>
       /\ Calls(events) = <<SetItem("a", VStr(<<"4", "2">>))>>
       /\ Read(get(Wrapper), "a") = VNum(42)
  /\ last.history = <<UpdateCall("a", VNum(42)), ReadCall("b"), PushCall("b")>> =>
       /\ Calls(events) = <<>>
       /\ storage = [ScenarioSettings EXCEPT !["a"] = VStr(<<"4", "2">>)]
  /\ last.history = <<UpdateCall("a", VNum(42)), ReadCall("b"), PushCall("b"), CommitCall>> =>
       /\ Calls(events) = <<SetItem("b", VStr(<<"[", "1", ",", "2", ",", "3", ",", "4", "]">>))>>
       /\ storage["a"] = VStr(<<"4", "2">>)
       /\ Read(get(Wrapper), "b") = VArr(<<VNum(1), VNum(2), VNum(3), VNum(4)>>)

\* the end of the scenario
C31_Witness ==
  /\ last.history = <<UpdateCall("a", VNum(42)), ReadCall("b"), PushCall("b"), CommitCall>>
  /\ storage["b"] = VStr(<<"[", "1", ",", "2", ",", "3", ",", "4", "]">>)
  /\ accessedRegistry = <<>>

----------------------------------------------------------------------------
\* C32: after construction a key that has no item in props.settings and no
\* unpackInitiator of its own (a key with a packer only included) has no
\* property in the settings and no getter, and no unpacker was called for
\* it: neither the built-in one nor the one of defaultPackerUnpacker.
C32_OnlyOwnInitiators ==
  last.op = "constructor" =>
    \A k \in Keys :
      (last.settings[k] = NoProp /\ packerUnpackers[k].unpackInitiator = NoFn) =>
        /\ typedSettings[k] = NoProp
        /\ k \notin DOMAIN get(Wrapper)
        /\ k \notin DOMAIN getToUpdate(Wrapper)
        /\ EventsOf(events, k) = <<>>

\* a wrapper made with a packer for a and an unpacker in defaultPackerUnpacker,
\* of settings without a, whose b the default unpacker unpacked
C32_Witness ==
  /\ last.op = "constructor"
  /\ constructed
  /\ last.settings["a"] = NoProp
  /\ packerUnpackers["a"] = Option("stringifyNonString", NoFn)
  /\ defaultPackerUnpacker.unpacker = "parseOr42"
  /\ typedSettings["a"] = NoProp
  /\ events = <<Unpacked("b", "parseOr42", last.settings["b"])>>

----------------------------------------------------------------------------
(* Wrappers made with unpackInitiators of settings that lack some of the   *)
(* keys, and the calls made on them since.                                 *)

InitiatedRaws == { VStr(<<"[", "1", "]">>) }

InitiatorsOfA == { Option(NoFn, "parseOr42"), Option("stringifyNonString", "identity") }

InitiatorsOfB == { Option(NoFn, "parseOrEmpty"), Option(NoFn, "jsonParseUnpackInitiator") }

InitInitiated ==
  \E settings \in [Keys -> InitiatedRaws \cup {NoProp}], a \in InitiatorsOfA, b \in InitiatorsOfB :
    LET pu == [k \in Keys |-> IF k = "a" THEN a ELSE b]
        w == construct(settings, pu, "jsonParseUnpackInitiator")
    IN /\ packerUnpackers = pu
       /\ defaultPackerUnpacker = [packer |-> NoFn, unpacker |-> NoFn]
       /\ option = NoFn
       /\ defaultPacker = "JSON.stringify"
       /\ defaultUnpackInitiator = "jsonParseUnpackInitiator"
       /\ typedSettings = w.typedSettings
       /\ trackedSettings = w.trackedSettings
       /\ accessedRegistry = w.accessedRegistry
       /\ storage = w.storage
       /\ events = w.events
       /\ threw = w.threw
       /\ constructed = ~w.threw
       /\ last = [op |-> "constructor", settings |-> settings, history |-> <<>>]

NextInitiated ==
  \/ \E key \in Keys : ScenarioUpdate(key, VNum(42))
  \/ \E key \in Keys : ScenarioRead(key)
  \/ \E key \in Keys : ScenarioPush(key)
  \/ ScenarioCommit

SpecInitiated == InitInitiated /\ [][NextInitiated]_vars

\* key k had no item at construction and has an unpackInitiator of its own
Initiated(k) ==
  last.settings[k] = NoProp /\ packerUnpackers[k].unpackInitiator # NoFn

\* the last call is a commit(), and key k was read through getToUpdate()
\* after the commit() before it, if any
CommitAfterRead(k) ==
  /\ last.op = "commit"
  /\ \E i \in 1..Len(last.history) :
       /\ last.history[i] = ReadCall(k)
       /\ \A j \in i..(Len(last.history) - 1) : last.history[j] # CommitCall

\* C33 as stated: an initiated key has a getter and no item after
\* construction, and the commit() that follows a read of it through
\* getToUpdate() makes one call for it, the setItem of its packed value.
C33_InitiatedIsSet ==
  \A k \in Keys :
    Initiated(k) =>
      /\ last.history = <<>> => (storage[k] = NoProp /\ k \in DOMAIN getToUpdate(Wrapper))
      /\ CommitAfterRead(k) =>
           CallsOf(events, k) =
             <<SetItem(k, ApplyPacker(ResolvedPacker(k), Get(typedSettings, k)).v)>>

\* C33, amended: an initiated key has a getter and no item after
\* construction, and the commit() that follows a read of it through
\* getToUpdate() makes one call for it: the setItem of the packed value it
\* has then, or removeItem when that value is undefined.
C33_InitiatedIsPersisted ==
  \A k \in Keys :
    Initiated(k) =>
      /\ last.history = <<>> => (storage[k] = NoProp /\ k \in DOMAIN getToUpdate(Wrapper))
      /\ CommitAfterRead(k) =>
           CallsOf(events, k) = <<ExpectedCall(k, Get(typedSettings, k))>>

\* b initiated as [], read, pushed on, committed
C33_Witness ==
  /\ Initiated("b")
  /\ last.history = <<ReadCall("b"), PushCall("b"), CommitCall>>
  /\ events = << Packed("b", "JSON.stringify", VArr(<<VNum(4)>>)),
                 SetItem("b", VStr(<<"[", "4", "]">>)) >>

----------------------------------------------------------------------------
\* the keys the constructor calls track() for, given props.settings
Installed(settings) ==
  { k \in Keys : settings[k] # NoProp \/ packerUnpackers[k].unpackInitiator # NoFn }

----------------------------------------------------------------------------
(* Write-through: the wrapper of the scenario's storage, with and without  *)
(* a packer for a, and the calls made on it since.                         *)

WriteThroughValues == { VStr(<<"4", "2">>), Undefined, ASIS }

InitWriteThrough ==
  \E a \in { NoOption, Option("stringifyNonString", NoFn) } :
    LET pu == [k \in Keys |-> IF k = "a" THEN a ELSE NoOption]
        w == construct(ScenarioSettings, pu, "jsonParseUnpackInitiator")
    IN /\ packerUnpackers = pu
       /\ defaultPackerUnpacker = [packer |-> NoFn, unpacker |-> NoFn]
       /\ option = NoFn
       /\ defaultPacker = "JSON.stringify"
       /\ defaultUnpackInitiator = "jsonParseUnpackInitiator"
       /\ typedSettings = w.typedSettings
       /\ trackedSettings = w.trackedSettings
       /\ accessedRegistry = w.accessedRegistry
       /\ storage = w.storage
       /\ events = w.events
       /\ threw = w.threw
       /\ constructed = ~w.threw
       /\ last = [op |-> "constructor", settings |-> ScenarioSettings, history |-> <<>>]

NextWriteThrough ==
  \/ \E key \in Keys, v \in WriteThroughValues : ScenarioUpdate(key, v)
  \/ \E key \in Keys : ScenarioRead(key)
  \/ \E key \in Keys : ScenarioPush(key)
  \/ ScenarioCommit

SpecWriteThrough == InitWriteThrough /\ [][NextWriteThrough]_vars

\* the i-th call since construction persisted key k: an update() given k, or
\* a commit() with k read through its getter since the commit() before
PersistedAt(k, i) ==
  \/ last.history[i].op = "update" /\ last.history[i].key = k
  \/ /\ last.history[i] = CommitCall
     /\ k \in trackedSettings
     /\ \E r \in 1..(i - 1) :
          /\ last.history[r] = ReadCall(k)
          /\ \A j \in r..(i - 1) : last.history[j] # CommitCall

\* key k was persisted, and its setting was not changed since: update()
\* changes and persists at once, a push changes only
PersistedSinceChange(k) ==
  \E i \in 1..Len(last.history) :
    /\ PersistedAt(k, i)
    /\ \A j \in (i + 1)..Len(last.history) : last.history[j] # PushCall(k)

\* C35: as long as no packer threw and only the wrapper calls the storage,
\* a key that was persisted by update() or commit() after the last change
\* of its setting has, for item, the string its packer makes of the setting
\* get() shows, and no item when that setting is undefined.
C35_WriteThrough ==
  \A k \in Keys :
    PersistedSinceChange(k) =>
      storage[k] = IF Read(get(Wrapper), k) = Undefined THEN NoProp
                   ELSE ApplyPacker(ResolvedPacker(k), Read(get(Wrapper), k)).v

\* a removed by update(), b read, pushed on and committed: both as persisted
C35_Witness ==
  /\ last.history = <<UpdateCall("a", Undefined), ReadCall("b"), PushCall("b"), CommitCall>>
  /\ PersistedSinceChange("a")
  /\ PersistedSinceChange("b")
  /\ storage["a"] = NoProp
  /\ storage["b"] = VStr(<<"[", "1", ",", "2", ",", "3", ",", "4", "]">>)

----------------------------------------------------------------------------
\* what persist leaves in the storage for key k of value val
PersistedItem(k, val) ==
  IF val = Undefined THEN NoProp ELSE ApplyPacker(ResolvedPacker(k), val).v

\* C36: when the packer of key k throws in update(value) at the entry of k,
\* whose value v is not ASIS, the settings have v for k and the storage has
\* the item of k it had; every entry before that of k was assigned and
\* persisted; every key of an entry after it has the setting and the item
\* it had.
C36_UpdateStopsAtThrow ==
  [][(last'.op = "update" /\ threw') =>
       LET value == last'.value
           k == events'[Len(events')].key
           i == CHOOSE n \in 1..Len(value) : value[n][1] = k
       IN /\ events'[Len(events')].ev = "pack"
          /\ \E n \in 1..Len(value) : value[n][1] = k
          /\ value[i][2] # ASIS =>
               /\ typedSettings'[k] = value[i][2]
               /\ storage'[k] = storage[k]
          /\ \A j \in 1..(i - 1) :
               LET kj == value[j][1]
                   vj == IF value[j][2] = ASIS THEN Get(typedSettings, kj) ELSE value[j][2]
               IN /\ Get(typedSettings', kj) = vj
                  /\ storage'[kj] = PersistedItem(kj, vj)
                  /\ CallsOf(events', kj) = <<ExpectedCall(kj, vj)>>
          /\ \A j \in (i + 1)..Len(value) :
               /\ typedSettings'[value[j][1]] = typedSettings[value[j][1]]
               /\ storage'[value[j][1]] = storage[value[j][1]]
               /\ EventsOf(events', value[j][1]) = <<>>]_vars

\* update({a: '42', b: [1]}) with a packer of strings for both keys threw at
\* b after a was persisted: b is [1] in the settings, its item is still '42'
C36_Witness ==
  /\ threw
  /\ last.op = "update"
  /\ last.value = << <<"a", VStr(<<"4", "2">>)>>, <<"b", VArr(<<VNum(1)>>)>> >>
  /\ events = << Packed("a", "packString", VStr(<<"4", "2">>)), SetItem("a", VStr(<<"4", "2">>)),
                 Packed("b", "packString", VArr(<<VNum(1)>>)) >>
  /\ typedSettings["b"] = VArr(<<VNum(1)>>)
  /\ storage["b"] = VStr(<<"4", "2">>)

----------------------------------------------------------------------------
\* C37: a commit() persists the keys of the registry in order until a packer
\* throws; when one throws, the registry is left as it was, the keys already
\* persisted included, and a commit() that follows at once persists those
\* again; when none throws, every key was persisted and the registry is
\* empty.  No call of the wrapper takes a key out of the registry other than
\* a commit() that persisted it.
C37_CommitKeepsRegistryOnThrow ==
  [][/\ last'.op = "commit" =>
          LET n == Len(Calls(events')) IN
          /\ n <= Len(accessedRegistry)
          /\ \A i \in 1..n :
               Calls(events')[i] =
                 ExpectedCall(accessedRegistry[i], Get(typedSettings, accessedRegistry[i]))
          /\ threw' =>
               /\ n < Len(accessedRegistry)
               /\ events'[Len(events')].ev = "pack"
               /\ events'[Len(events')].key = accessedRegistry[n + 1]
               /\ accessedRegistry' = accessedRegistry
          /\ ~threw' => (n = Len(accessedRegistry) /\ accessedRegistry' = <<>>)
     /\ (last.op = "commit" /\ threw /\ last'.op = "commit") =>
          (threw' /\ events' = events)
     /\ last'.op # "constructor" =>
          \A k \in Range(accessedRegistry) \ Range(accessedRegistry') :
            last'.op = "commit" /\ ~threw' /\ Len(CallsOf(events', k)) = 1]_vars

\* a commit() that persisted a and threw at b: both are still in the registry
C37_Witness ==
  /\ threw
  /\ last.op = "commit"
  /\ accessedRegistry = <<"a", "b">>
  /\ Calls(events) = <<SetItem("a", VStr(<<"4", "2">>))>>
  /\ events[Len(events)] = Packed("b", "packString", VArr(<<VNum(1)>>))

----------------------------------------------------------------------------
\* C38: update() given ASIS for a key whose setting is undefined, because
\* the settings have no such property or because the property holds
\* undefined, calls removeItem for the key and no packer, and leaves the
\* property and the getters as they were: a key without property and
\* without getter has neither afterwards.
C38_AsisOfMissingRemoves ==
  [][last'.op = "update" =>
       \A i \in 1..Len(last'.value) :
         LET k == last'.value[i][1] IN
         (last'.value[i][2] = ASIS /\ Get(typedSettings, k) = Undefined) =>
           /\ ~threw'
           /\ EventsOf(events', k) = <<RemoveItem(k)>>
           /\ storage'[k] = NoProp
           /\ typedSettings'[k] = typedSettings[k]
           /\ trackedSettings' = trackedSettings
           /\ (k \in DOMAIN get(Wrapper)') <=> (k \in DOMAIN get(Wrapper))
           /\ (k \in DOMAIN getToUpdate(Wrapper)') <=> (k \in DOMAIN getToUpdate(Wrapper))]_vars

\* update({a: ASIS}) on a wrapper whose settings have no a and no getter for a
C38_Witness ==
  /\ last = [op |-> "update", value |-> << <<"a", ASIS>> >>]
  /\ events = <<RemoveItem("a")>>
  /\ typedSettings["a"] = NoProp
  /\ "a" \notin DOMAIN get(Wrapper)
  /\ "a" \notin DOMAIN getToUpdate(Wrapper)
  /\ storage["a"] = NoProp

====
